---- MODULE Spec2Model ----
(***************************************************************************)
(* Submission evaluation of the practice app: the submit_solution and      *)
(* run_code_against_samples views, CodeExecutionService (run_code,         *)
(* evaluate_submission, run_against_test_cases), the statistics update of  *)
(* TestCaseService, BadgeService, the test case formset of                 *)
(* problem_create_edit and the admin operations on problems and            *)
(* submissions.                                                            *)
(*                                                                         *)
(* Text is a sequence of one-character (or one-token) strings; the empty   *)
(* sequence stands for both '' and None, which Python treats alike in the  *)
(* truth tests the code applies.  A provider metric (cpuTime, memory) is   *)
(* an integer: 0 for an absent/None/falsy value, n > 0 for a value that    *)
(* parses to n, Unparseable for a truthy value float()/int() reject.       *)
(* The streak of UserStats (update_streak) is not represented here.        *)
(*                                                                         *)
(* The database is the SQLite file of settings.py.  A request runs in one  *)
(* transaction (transaction.atomic); where requests overlap, the locks of  *)
(* the database file are derived from the positions of the requests.       *)
(***************************************************************************)
EXTENDS Integers, Sequences, FiniteSets, TLC

\* ------------------------------------------------------------------ bounds
MaxReq      == 2    \* submit_solution requests over a behaviour
MaxCases    == 2    \* test cases a problem defines
MaxMetric   == 2    \* largest cpuTime / memory value the provider reports
MaxLen      == 2    \* characters of a text the submitted program prints

Requests   == 1..MaxReq
ProblemIds == {"two-sum"}
Users      == {"ann"}
NoUser     == "-"
NoSuchSlug == "no-such-problem"
Slugs      == ProblemIds \cup {NoSuchSlug}

\* ------------------------------------------------------------ text values
Whitespace == {" ", "\n"}
Hidden     == <<"[Hidden]">>
MsgUnsupported == <<"Unsupported language">>
MsgConnect     == <<"Failed to connect to execution service.">>
MsgException   == <<"str(e)">>
MsgApiError    == <<"api error">>
InputData      == <<"stdin">>

RECURSIVE LStrip(_)
LStrip(s) == IF s # <<>> /\ Head(s) \in Whitespace THEN LStrip(Tail(s)) ELSE s

RECURSIVE RStrip(_)
RStrip(s) == IF s # <<>> /\ s[Len(s)] \in Whitespace
             THEN RStrip(SubSeq(s, 1, Len(s) - 1)) ELSE s

\* str.strip(): all leading and trailing whitespace
Strip(s) == RStrip(LStrip(s))

\* --------------------------------------------------------------- statuses
CONTENT_STATUSES == {"DRAFT", "PENDING_APPROVAL", "PUBLISHED", "ARCHIVED", "PRIVATE"}
SUBMISSION_STATUS_CHOICES ==
    {"PENDING", "RUNNING", "ACCEPTED", "WRONG_ANSWER", "TIME_LIMIT_EXCEEDED",
     "MEMORY_LIMIT_EXCEEDED", "RUNTIME_ERROR", "COMPILATION_ERROR",
     "PRESENTATION_ERROR", "INTERNAL_ERROR"}

LANGUAGE_MAPPING ==
    {"python3", "cpp17", "java", "javascript", "csharp", "go", "rust", "php",
     "ruby", "kotlin", "swift"}
\* language identifiers a request body may carry
RequestLanguages == {"python3", "cobol", ""}

\* ------------------------------------------------------ execution provider
Unparseable == -1
MetricVals  == {Unparseable} \cup (0..MaxMetric)
RawOutputs  == {<<"a", "\n">>, <<"b">>}
ExpectedOutputs == {<<"a">>}

\* what requests.post(...) yields: a JSON body, a RequestException or any
\* other exception raised while the body is read
ProviderReplies ==
    [kind : {"json"}, error : {<<>>, MsgApiError}, output : RawOutputs,
     cpuTime : MetricVals, memory : MetricVals]
    \cup
    [kind : {"request_exception", "exception"}, error : {<<>>}, output : {<<>>},
     cpuTime : {0}, memory : {0}]

\* the replies that differ in what becomes of the submission row: a clean
\* run with the expected or another output, an API error and a metric that
\* does not parse
CommonReplies ==
    {rp \in ProviderReplies :
        \/ rp.kind = "json" /\ rp.error = <<>> /\ rp.cpuTime = MaxMetric /\ rp.memory = MaxMetric
        \/ rp.kind = "json" /\ rp.error # <<>> /\ rp.output = <<"b">>
                            /\ rp.cpuTime = 0 /\ rp.memory = 0
        \/ rp.kind = "json" /\ rp.error = <<>> /\ rp.output = <<"b">>
                            /\ rp.cpuTime = Unparseable /\ rp.memory = 0}

\* clean runs that differ in what the statistics make of them: the expected
\* output with any metrics, another output
StatsReplies ==
    {rp \in ProviderReplies :
        /\ rp.kind = "json" /\ rp.error = <<>>
        /\ rp.cpuTime # Unparseable /\ rp.memory # Unparseable
        /\ rp.output = <<"b">> => rp.cpuTime = MaxMetric /\ rp.memory = MaxMetric}

\* CodeExecutionService.run_code; a key the returned dict lacks reads as
\* None through dict.get, i.e. <<>> / 0 / FALSE here
run_code(language, reply) ==
    IF language \notin LANGUAGE_MAPPING
    THEN [error |-> MsgUnsupported, output |-> <<>>, cpuTime |-> 0, memory |-> 0,
          is_compilation_error |-> FALSE]
    ELSE IF reply.kind = "request_exception"
    THEN [error |-> MsgConnect, output |-> <<>>, cpuTime |-> 0, memory |-> 0,
          is_compilation_error |-> FALSE]
    ELSE IF reply.kind = "exception"
    THEN [error |-> MsgException, output |-> <<>>, cpuTime |-> 0, memory |-> 0,
          is_compilation_error |-> FALSE]
    ELSE IF reply.error # <<>>
    THEN [error |-> reply.error, output |-> reply.output,
          cpuTime |-> reply.cpuTime, memory |-> reply.memory,
          is_compilation_error |-> TRUE]
    ELSE [error |-> <<>>, output |-> Strip(reply.output),
          cpuTime |-> reply.cpuTime, memory |-> reply.memory,
          is_compilation_error |-> FALSE]

Max(a, b) == IF a >= b THEN a ELSE b

\* ------------------------------------------------------------------ state
VARIABLES
    problems,    \* PracticeProblem rows
    testCases,   \* TestCase rows of each problem, in 'order'
    subs,        \* PracticeSubmission rows, keyed by the creating request
    exists,      \* ids of the submission rows present in the table
    committed,   \* ids of the rows whose creating transaction has committed
    ups,         \* UserProblemStats rows
    ustats,      \* UserStats rows
    clock,       \* timezone.now()
    req,         \* the submit_solution requests: position and local variables
    userBadges,  \* UserBadge rows: how many each user has of each badge
    calls,       \* run_code invocations made for each request
    seen,        \* what each run_code result of a request signalled
    badgeChecks  \* the requests that invoked check_and_award_badges

vars == <<problems, testCases, subs, exists, committed, ups, ustats, userBadges,
          clock, req, calls, seen, badgeChecks>>

BlankRow ==
    [user |-> NoUser, problem |-> NoSuchSlug, language |-> "", status |-> "",
     results |-> <<>>, passed_cases |-> 0, total_cases |-> 0,
     execution_time |-> 0, memory_used |-> 0]

BlankProblem ==
    [status |-> "", difficulty |-> "", total_submissions |-> 0,
     accepted_submissions |-> 0]

BlankReq ==
    [pc |-> "idle", user |-> NoUser, slug |-> NoSuchSlug, language |-> "",
     problem |-> BlankProblem, test_cases |-> <<>>, i |-> 0,
     passed_count |-> 0, total_count |-> 0, overall_status |-> "",
     individual_results |-> <<>>, max_cpu_time |-> 0, max_memory |-> 0,
     undo |-> <<>>, response |-> 0]

\* UserProblemStats field defaults (get_or_create)
NewUps ==
    [exists |-> FALSE, is_attempted |-> FALSE, is_solved |-> FALSE,
     first_solved_at |-> 0, best_submission |-> 0, total_attempts |-> 0,
     best_runtime |-> 0, best_memory |-> 0]

\* UserStats field defaults (get_or_create)
NewUserStats ==
    [exists |-> FALSE, problems_solved |-> 0, total_submissions |-> 0,
     accepted_submissions |-> 0, easy_solved |-> 0, medium_solved |-> 0,
     hard_solved |-> 0, total_points |-> 0]

\* the names check_and_award_badges passes to award_badge; the Badge table
\* holds a row for each
BadgeNames ==
    {"First Submission", "First Accepted Solution", "Problem Solver",
     "Coding Enthusiast", "Coding Master", "Week Warrior", "Monthly Master",
     "Easy Mode Champion", "Medium Mode Master", "Hard Mode Hero"}

\* PracticeProblem.difficulty of the problems
Difficulty(p) == IF p = "two-sum" THEN "EASY" ELSE "HARD"

TestCaseRows ==
    [is_sample : BOOLEAN, input_data : {InputData}, expected_output : ExpectedOutputs]

TestCaseListsUpTo(k) == UNION {[1..n -> TestCaseRows] : n \in 0..k}

\* the lists whose sample cases come first ('order' puts the samples shown
\* with the statement ahead of the hidden cases)
TestCaseLists ==
    {l \in TestCaseListsUpTo(MaxCases) :
        \A i \in 1..Len(l) : l[i].is_sample <=> i = 1}

\* problems of the one-submission specification may define more cases
EvalCases == MaxCases + 1

\* the database with the problems ids, published, and nothing submitted
InitOn(ids, lists) ==
    /\ problems = [p \in ids |->
                     [status |-> "PUBLISHED", difficulty |-> Difficulty(p),
                      total_submissions |-> 0, accepted_submissions |-> 0]]
    /\ testCases \in [ids -> lists]
    /\ subs = [r \in Requests |-> BlankRow]
    /\ exists = {}
    /\ committed = {}
    /\ ups = [k \in Users \X ids |-> NewUps]
    /\ ustats = [u \in Users |-> NewUserStats]
    /\ userBadges = [k \in Users \X BadgeNames |-> 0]
    /\ clock = 1
    /\ req = [r \in Requests |-> BlankReq]
    /\ calls = [r \in Requests |-> 0]
    /\ seen = [r \in Requests |-> <<>>]
    /\ badgeChecks = {}

InitWith(lists) == InitOn(ProblemIds, lists)

Init == InitWith(TestCaseLists)

InitEval == InitWith(TestCaseListsUpTo(EvalCases))

InFlight == {r \in Requests : req[r].pc \notin {"idle", "done", "crashed"}}

\* ----------------------------------------------------- submit_solution
Evaluable_any_status(slug) == slug \in DOMAIN problems

\* get_object_or_404(PracticeProblem, slug=slug, status='PUBLISHED')
Evaluable(slug) == slug \in DOMAIN problems /\ problems[slug].status = "PUBLISHED"

\* The request body is parsed, the problem looked up and the submission row
\* created with status PENDING.  has_code/has_language are the truth values
\* of data.get('code') and data.get('language').
Submit(r, user, slug, language, has_code) ==
    /\ req[r].pc = "idle"
    /\ IF r = 1 THEN TRUE ELSE req[r - 1].pc # "idle"
    /\ InFlight = {}
    /\ IF ~has_code \/ language = ""
       THEN /\ req' = [req EXCEPT ![r] = [BlankReq EXCEPT !.pc = "done", !.response = 400]]
            /\ UNCHANGED <<subs, exists>>
       ELSE IF ~Evaluable(slug)
       THEN \* Http404 is caught by 'except Exception'
            /\ req' = [req EXCEPT ![r] = [BlankReq EXCEPT !.pc = "done", !.response = 500]]
            /\ UNCHANGED <<subs, exists>>
       ELSE /\ subs' = [subs EXCEPT ![r] =
                          [BlankRow EXCEPT !.user = user, !.problem = slug,
                                           !.language = language,
                                           !.status = "PENDING"]]
            /\ exists' = exists \cup {r}
            /\ req' = [req EXCEPT ![r] =
                          [BlankReq EXCEPT !.pc = "created", !.user = user,
                                           !.slug = slug, !.language = language,
                                           !.problem = problems[slug]]]
    /\ UNCHANGED <<userBadges, badgeChecks>>
    /\ UNCHANGED <<problems, testCases, committed, ups, ustats, clock, calls,
                   seen>>

\* ---------------------------------------------- overlapping requests
\* The view runs in one transaction of the SQLite database.  Its first
\* query takes the shared lock, its first write the reserved lock of the
\* database file, and both are held until the transaction ends.
Readers == {r \in Requests : req[r].pc = "loaded"}

Writers ==
    {r \in Requests :
        req[r].pc \in {"created", "checked", "eval", "evaluated", "saved",
                        "stats_user", "stats_ups", "stats_marked", "counted",
                        "recounted", "raised", "stats_raised", "marked"}}

WriteLocked_never(r) == FALSE

\* the INSERT of request r finds the reserved lock taken: a connection that
\* already reads gets 'database is locked' at once
WriteLocked(r) == Writers \ {r} # {}

\* COMMIT needs the exclusive lock and waits for the other readers
CommitBlocked(r) == Readers \ {r} # {}

\* submit_solution up to get_object_or_404, for a request that may overlap
\* with others.  The copy of the problem is used only by a request that
\* gets the write lock, which no request has while another holds it.
Begin(r, user, slug, language, has_code) ==
    /\ req[r].pc = "idle"
    /\ IF r = 1 THEN TRUE ELSE req[r - 1].pc # "idle"
    /\ IF ~has_code \/ language = ""
       THEN req' = [req EXCEPT ![r] = [BlankReq EXCEPT !.pc = "done", !.response = 400]]
       ELSE IF ~Evaluable(slug)
       THEN req' = [req EXCEPT ![r] = [BlankReq EXCEPT !.pc = "done", !.response = 500]]
       ELSE req' = [req EXCEPT ![r] =
                       [BlankReq EXCEPT !.pc = "loaded", !.user = user,
                                        !.slug = slug, !.language = language,
                                        !.problem = problems[slug]]]
    /\ UNCHANGED <<userBadges, badgeChecks>>
    /\ UNCHANGED <<problems, testCases, subs, exists, committed, ups, ustats,
                   clock, calls, seen>>

\* PracticeSubmission.objects.create(...): the row is inserted with status
\* PENDING, or the OperationalError of a locked database is caught by
\* 'except Exception' and the transaction is rolled back
Create(r) ==
    /\ req[r].pc = "loaded"
    /\ IF WriteLocked(r)
       THEN /\ req' = [req EXCEPT ![r] = [BlankReq EXCEPT !.pc = "done", !.response = 500]]
            /\ UNCHANGED <<subs, exists>>
       ELSE /\ subs' = [subs EXCEPT ![r] =
                          [BlankRow EXCEPT !.user = req[r].user,
                                           !.problem = req[r].slug,
                                           !.language = req[r].language,
                                           !.status = "PENDING"]]
            /\ exists' = exists \cup {r}
            /\ req' = [req EXCEPT ![r].pc = "created"]
    /\ UNCHANGED <<userBadges, badgeChecks>>
    /\ UNCHANGED <<problems, testCases, committed, ups, ustats, clock, calls,
                   seen>>

NoTestCasesStatus_accepted == "ACCEPTED"

\* "status" of the dict returned when 'not test_cases.exists()'
NoTestCasesStatus == "INTERNAL_ERROR"

\* evaluate_submission up to the loop: the test cases are fetched in order;
\* without test cases the INTERNAL_ERROR result is returned at once
StartEvaluation(r) ==
    /\ req[r].pc = "created"
    /\ LET tcs == testCases[req[r].slug] IN
       IF tcs = <<>>
       THEN req' = [req EXCEPT ![r].pc = "evaluated",
                               ![r].overall_status = NoTestCasesStatus]
       ELSE req' = [req EXCEPT ![r].pc = "eval",
                               ![r].test_cases = tcs,
                               ![r].total_count = Len(tcs),
                               ![r].overall_status = "ACCEPTED",
                               ![r].i = 1]
    /\ UNCHANGED <<userBadges, badgeChecks>>
    /\ UNCHANGED <<problems, testCases, subs, exists, committed, ups, ustats,
                   clock, calls, seen>>

\* "if not test_cases.exists()": the first of the two queries
\* evaluate_submission makes on the test cases of the problem
CheckTestCases(r) ==
    /\ req[r].pc = "created"
    /\ IF testCases[req[r].slug] = <<>>
       THEN req' = [req EXCEPT ![r].pc = "evaluated",
                               ![r].overall_status = NoTestCasesStatus]
       ELSE req' = [req EXCEPT ![r].pc = "checked"]
    /\ UNCHANGED <<userBadges, badgeChecks>>
    /\ UNCHANGED <<problems, testCases, subs, exists, committed, ups, ustats,
                   clock, calls, seen>>

\* "total_count = len(test_cases)": the second query fetches the rows, which
\* the loop then iterates
FetchTestCases(r) ==
    /\ req[r].pc = "checked"
    /\ LET tcs == testCases[req[r].slug] IN
       req' = [req EXCEPT ![r].pc = IF tcs = <<>> THEN "evaluated" ELSE "eval",
                          ![r].test_cases = tcs,
                          ![r].total_count = Len(tcs),
                          ![r].overall_status = "ACCEPTED",
                          ![r].i = IF tcs = <<>> THEN 0 ELSE 1]
    /\ UNCHANGED <<userBadges, badgeChecks>>
    /\ UNCHANGED <<problems, testCases, subs, exists, committed, ups, ustats,
                   clock, calls, seen>>

EditLocked_never == FALSE

\* a write of another connection needs the reserved lock, which a request
\* holds from its INSERT on, and the exclusive lock to commit
EditLocked == Readers # {} \/ Writers # {}

\* problem_create_edit: the author saves the test case formset of a problem
\* (cases added, changed or deleted; min_num keeps one)
SaveTestCases(p, list) ==
    /\ ~EditLocked
    /\ list # <<>> /\ list # testCases[p]
    /\ testCases' = [testCases EXCEPT ![p] = list]
    /\ UNCHANGED <<userBadges, badgeChecks>>
    /\ UNCHANGED <<problems, subs, exists, committed, ups, ustats, clock, req,
                   calls, seen>>

Masked_never(test_case, text) == text

\* 'x if test_case.is_sample else "[Hidden]"'
Masked(test_case, text) == IF test_case.is_sample THEN text ELSE Hidden

\* what an execution result signals to the evaluator
Signal(er) == IF er.is_compilation_error THEN "compile"
              ELSE IF er.error # <<>> THEN "error" ELSE "clean"

\* float()/int() of a truthy metric raises ValueError on an unparseable value
MetricRaises(er) == er.cpuTime = Unparseable \/ er.memory = Unparseable

MaxSoFar_latest(so_far, value) == IF value # 0 THEN value ELSE so_far

\* running maximum of a metric; a falsy value is skipped
MaxSoFar(so_far, value) == IF value # 0 THEN Max(so_far, value) ELSE so_far

BreakOnCompilationError_never(er) == FALSE

\* 'break' of the compilation-error branch
BreakOnCompilationError(er) == er.is_compilation_error

BreakOnError_never(er) == FALSE

\* 'break' of the runtime-error branch
BreakOnError(er) == er.error # <<>>

BreakOnWrongAnswer_enabled(overall_status) == overall_status = "WRONG_ANSWER"

\* the 'stop on first failure' break, which the code leaves commented out
BreakOnWrongAnswer(overall_status) == FALSE

StatusAfterCompare_latest(overall_status, passed) ==
    IF passed THEN "ACCEPTED" ELSE "WRONG_ANSWER"

\* overall_status after the comparison of one case
StatusAfterCompare(overall_status, passed) ==
    IF passed THEN overall_status ELSE "WRONG_ANSWER"

\* passed_count after the comparison of one case
PassedAfterCompare(passed_count, passed) ==
    IF passed THEN passed_count + 1 ELSE passed_count

\* the entry appended to individual_results for case number i
CaseResult(i, tc, er) ==
    IF er.is_compilation_error
    THEN [case_number |-> i, status |-> "Compilation Error",
          input |-> Masked(tc, tc.input_data), error_message |-> er.output]
    ELSE IF er.error # <<>>
    THEN [case_number |-> i, status |-> "Runtime Error",
          input |-> Masked(tc, tc.input_data), error_message |-> er.error]
    ELSE [case_number |-> i, is_sample |-> tc.is_sample,
          input |-> Masked(tc, tc.input_data),
          expected_output |-> Masked(tc, Strip(tc.expected_output)),
          actual_output |-> Masked(tc, er.output),
          status |-> IF er.output = Strip(tc.expected_output)
                     THEN "PASSED" ELSE "FAILED"]

\* One iteration of the loop over the test cases: one run_code call and the
\* classification of its result.  The loop ends after the last case or at
\* a break.
RunCase(r, reply) ==
    /\ req[r].pc = "eval"
    /\ LET q  == req[r]
           tc == q.test_cases[q.i]
           er == run_code(q.language, reply)
           passed == er.output = Strip(tc.expected_output)
           status == IF er.is_compilation_error THEN "COMPILATION_ERROR"
                     ELSE IF er.error # <<>> THEN "RUNTIME_ERROR"
                     ELSE StatusAfterCompare(q.overall_status, passed)
           stop == \/ er.is_compilation_error /\ BreakOnCompilationError(er)
                   \/ ~er.is_compilation_error /\ er.error # <<>> /\ BreakOnError(er)
                   \/ /\ ~er.is_compilation_error /\ er.error = <<>>
                      /\ status = "WRONG_ANSWER" /\ BreakOnWrongAnswer(status)
                   \/ q.i = Len(q.test_cases)
       IN
       /\ calls' = [calls EXCEPT ![r] = @ + 1]
       /\ seen' = [seen EXCEPT ![r] = Append(@, Signal(er))]
       /\ IF MetricRaises(er)
          THEN \* the exception leaves evaluate_submission and is caught by the view
               req' = [req EXCEPT ![r] = [BlankReq EXCEPT !.pc = "raised"]]
          ELSE req' = [req EXCEPT
                    ![r].pc = IF stop THEN "evaluated" ELSE "eval",
                    ![r].i = IF stop THEN q.i ELSE q.i + 1,
                    ![r].max_cpu_time = MaxSoFar(@, er.cpuTime),
                    ![r].max_memory = MaxSoFar(@, er.memory),
                    ![r].passed_count =
                        IF Signal(er) = "clean" THEN PassedAfterCompare(@, passed) ELSE @,
                    ![r].overall_status = status,
                    ![r].individual_results = Append(@, CaseResult(q.i, tc, er))]
    /\ UNCHANGED <<userBadges, badgeChecks>>
    /\ UNCHANGED <<problems, testCases, subs, exists, committed, ups, ustats,
                   clock>>

final_result_attempted(q) ==
    [status |-> q.overall_status, passed_cases |-> q.passed_count,
     total_cases |-> Len(q.individual_results), results |-> q.individual_results,
     execution_time |-> q.max_cpu_time, memory_used |-> q.max_memory]

\* the dict evaluate_submission returns
final_result(q) ==
    [status |-> q.overall_status, passed_cases |-> q.passed_count,
     total_cases |-> q.total_count, results |-> q.individual_results,
     execution_time |-> q.max_cpu_time, memory_used |-> q.max_memory]

\* the evaluation result is copied into the submission and saved
Finalize(r) ==
    /\ req[r].pc = "evaluated"
    /\ LET evaluation_result == final_result(req[r]) IN
       subs' = [subs EXCEPT ![r].status = evaluation_result.status,
                            ![r].results = evaluation_result.results,
                            ![r].passed_cases = evaluation_result.passed_cases,
                            ![r].total_cases = evaluation_result.total_cases,
                            ![r].execution_time = evaluation_result.execution_time,
                            ![r].memory_used = evaluation_result.memory_used]
    /\ req' = [req EXCEPT ![r].pc = "saved"]
    /\ UNCHANGED <<userBadges, badgeChecks>>
    /\ UNCHANGED <<problems, testCases, exists, committed, ups, ustats, clock,
                   calls, seen>>

\* --------------------------------- TestCaseService.update_user_problem_stats
FirstSolve_every_accept(row, status) == status = "ACCEPTED"

\* "if status == 'ACCEPTED': if not user_problem_stats.is_solved:"
FirstSolve(row, status) == status = "ACCEPTED" /\ ~row.is_solved

Improves_or_ties(value, best) == value # 0 /\ (best = 0 \/ value <= best)

\* "if submission.execution_time: if not best_runtime or execution_time <
\* best_runtime", and the same test for memory_used
Improves(value, best) == value # 0 /\ (best = 0 \/ value < best)

\* the UserProblemStats row after the update
UpsAfter(row, submission, sid, status, now) ==
    LET counted == [row EXCEPT !.exists = TRUE, !.is_attempted = TRUE,
                               !.total_attempts = @ + 1]
        solved  == IF FirstSolve(counted, status)
                   THEN [counted EXCEPT !.is_solved = TRUE, !.first_solved_at = now]
                   ELSE counted
        runtime == IF /\ status = "ACCEPTED"
                      /\ Improves(submission.execution_time, solved.best_runtime)
                   THEN [solved EXCEPT !.best_runtime = submission.execution_time,
                                       !.best_submission = sid]
                   ELSE solved
    IN  IF /\ status = "ACCEPTED"
           /\ Improves(submission.memory_used, runtime.best_memory)
        THEN [runtime EXCEPT !.best_memory = submission.memory_used]
        ELSE runtime

SolvedCounter_easy(difficulty) == "easy_solved"

\* the UserStats counter of the problems solved at a difficulty
SolvedCounter(difficulty) ==
    IF difficulty = "EASY" THEN "easy_solved"
    ELSE IF difficulty = "MEDIUM" THEN "medium_solved"
    ELSE IF difficulty = "HARD" THEN "hard_solved"
    ELSE ""

UserStatsAfter_first_only(row, first_accept, status, difficulty) ==
    IF status = "ACCEPTED" /\ first_accept
    THEN [row EXCEPT !.exists = TRUE, !.problems_solved = @ + 1,
                     !.accepted_submissions = @ + 1, !.total_submissions = @ + 1,
                     ![SolvedCounter(difficulty)] = @ + 1]
    ELSE IF status = "ACCEPTED" THEN [row EXCEPT !.exists = TRUE]
    ELSE [row EXCEPT !.exists = TRUE, !.total_submissions = @ + 1]

\* the UserStats row after the three branches of the update: the first
\* ACCEPTED submission for the problem, a later ACCEPTED one, any other
UserStatsAfter(row, first_accept, status, difficulty) ==
    IF status = "ACCEPTED" /\ first_accept
    THEN LET solved == [row EXCEPT !.exists = TRUE, !.problems_solved = @ + 1,
                                   !.accepted_submissions = @ + 1,
                                   !.total_submissions = @ + 1]
             counter == SolvedCounter(difficulty)
         IN  IF counter \in DOMAIN solved
             THEN [solved EXCEPT ![counter] = @ + 1] ELSE solved
    ELSE [row EXCEPT !.exists = TRUE, !.total_submissions = @ + 1]

\* ------------------------------------------------------------ BadgeService
\* the branch of update_user_problem_stats that calls check_and_award_badges
ChecksBadges(first_accept, status) == status = "ACCEPTED" /\ first_accept

\* the names check_and_award_badges passes to award_badge for a UserStats
\* row.  The streak badges need a current_streak of 7, more first solves
\* than a behaviour has submissions.
BadgesDue(stats) ==
    {b \in BadgeNames :
        \/ b = "First Submission" /\ stats.total_submissions = 1
        \/ b = "First Accepted Solution" /\ stats.accepted_submissions = 1
        \/ b = "Problem Solver" /\ stats.problems_solved = 10
        \/ b = "Coding Enthusiast" /\ stats.problems_solved = 50
        \/ b = "Coding Master" /\ stats.problems_solved = 100
        \/ b = "Easy Mode Champion" /\ stats.easy_solved >= 25
        \/ b = "Medium Mode Master" /\ stats.medium_solved >= 25
        \/ b = "Hard Mode Hero" /\ stats.hard_solved >= 10}

Created_always(held) == TRUE

\* 'created' of UserBadge.objects.get_or_create(user=user, badge=badge),
\* given the number of rows the user has of the badge
Created(held) == held = 0

\* the badges among due that award_badge creates a row for
NewlyAwarded(u, due) == {b \in due : Created(userBadges[<<u, b>>])}

\* the UserBadge table after award_badge was called for the badges due
BadgesAfter(u, due) ==
    [k \in DOMAIN userBadges |->
        IF k[1] = u /\ k[2] \in NewlyAwarded(u, due)
        THEN userBadges[k] + 1 ELSE userBadges[k]]

\* "if created: user_stats.total_points += 10"
PointsAfter(row, u, due) ==
    [row EXCEPT !.total_points = @ + 10 * Cardinality(NewlyAwarded(u, due))]

\* the problem object loaded at the start of the request is incremented and
\* saved with all its fields
ProblemAfter_always_accepted(loaded, status) ==
    [loaded EXCEPT !.total_submissions = @ + 1, !.accepted_submissions = @ + 1]

ProblemAfter_accepted_only(loaded, status) ==
    [loaded EXCEPT !.total_submissions = IF status = "ACCEPTED" THEN @ ELSE @ + 1,
                   !.accepted_submissions = IF status = "ACCEPTED" THEN @ + 1 ELSE @]

ProblemAfter(loaded, status) ==
    [loaded EXCEPT !.total_submissions = @ + 1,
                   !.accepted_submissions = IF status = "ACCEPTED" THEN @ + 1 ELSE @]

\* what update_user_problem_stats writes up to and including the badge
\* check: the UserStats row, the UserBadge rows and the points for them
UserWrites(r) ==
    LET u == req[r].user
        status == subs[r].status
        first == FirstSolve(ups[<<u, req[r].slug>>], status)
        row == UserStatsAfter(ustats[u], first, status, req[r].problem.difficulty)
        due == IF ChecksBadges(first, status) THEN BadgesDue(row) ELSE {}
    IN
    /\ ustats' = [ustats EXCEPT ![u] = PointsAfter(row, u, due)]
    /\ userBadges' = BadgesAfter(u, due)
    /\ badgeChecks' = IF ChecksBadges(first, status)
                      THEN badgeChecks \cup {r} ELSE badgeChecks

\* what one call of update_user_problem_stats writes for the submission of
\* request r; the problem object of the view is incremented in place
StatsWrites(r) ==
    LET u == req[r].user
        p == req[r].slug
        status == subs[r].status
    IN
    /\ UserWrites(r)
    /\ ups' = [ups EXCEPT ![<<u, p>>] = UpsAfter(@, subs[r], r, status, clock)]
    /\ problems' = [problems EXCEPT ![p] = ProblemAfter(req[r].problem, status)]
    /\ clock' = clock + 1

UpdateStats(r) ==
    /\ req[r].pc = "saved"
    /\ StatsWrites(r)
    /\ req' = [req EXCEPT ![r].pc = "counted",
                          ![r].problem = ProblemAfter(@, subs[r].status)]
    /\ UNCHANGED <<testCases, subs, exists, committed, calls, seen>>

\* update_user_problem_stats is called once more for the same submission
Reapply(r) ==
    /\ req[r].pc = "counted"
    /\ StatsWrites(r)
    /\ req' = [req EXCEPT ![r].pc = "recounted",
                          ![r].problem = ProblemAfter(@, subs[r].status)]
    /\ UNCHANGED <<testCases, subs, exists, committed, calls, seen>>

\* update_user_problem_stats in the order of its writes.  First the
\* UserProblemStats row is fetched or created and the UserStats row saved,
\* badges included.
StatsUser(r) ==
    /\ req[r].pc = "saved"
    /\ UserWrites(r)
    /\ ups' = [ups EXCEPT ![<<req[r].user, req[r].slug>>].exists = TRUE]
    /\ req' = [req EXCEPT ![r].pc = "stats_user",
                          ![r].undo = [ups |-> ups, ustats |-> ustats,
                                       userBadges |-> userBadges,
                                       problems |-> problems]]
    /\ UNCHANGED <<problems, testCases, subs, exists, committed, clock, calls,
                   seen>>

\* then user_problem_stats.save()
StatsUps(r) ==
    /\ req[r].pc = "stats_user"
    /\ ups' = [ups EXCEPT ![<<req[r].user, req[r].slug>>] =
                  UpsAfter(@, subs[r], r, subs[r].status, clock)]
    /\ clock' = clock + 1
    /\ req' = [req EXCEPT ![r].pc = "stats_ups"]
    /\ UNCHANGED <<problems, testCases, subs, exists, committed, ustats,
                   userBadges, calls, seen, badgeChecks>>

\* then problem.save()
StatsProblem(r) ==
    /\ req[r].pc = "stats_ups"
    /\ problems' = [problems EXCEPT ![req[r].slug] =
                       ProblemAfter(req[r].problem, subs[r].status)]
    /\ req' = [req EXCEPT ![r].pc = "counted",
                          ![r].problem = ProblemAfter(@, subs[r].status)]
    /\ UNCHANGED <<testCases, subs, exists, committed, ups, ustats, userBadges,
                   clock, calls, seen, badgeChecks>>

\* user_problem_stats.save() or problem.save() raises a database error: the
\* transaction is marked for rollback and 'except Exception' answers 500
SaveFails(r) ==
    /\ req[r].pc \in {"stats_user", "stats_ups"}
    /\ req' = [req EXCEPT ![r].pc = "stats_marked"]
    /\ UNCHANGED <<problems, testCases, subs, exists, committed, ups, ustats,
                   userBadges, clock, calls, seen, badgeChecks>>

RolledBack_kept(current, before) == current

\* a table after the rollback of the transaction that wrote to it
RolledBack(current, before) == before

\* transaction.atomic leaves the view with the transaction marked for
\* rollback after some of the statistics were written
RollbackStats(r) ==
    /\ req[r].pc = "stats_marked"
    /\ ups' = RolledBack(ups, req[r].undo.ups)
    /\ ustats' = RolledBack(ustats, req[r].undo.ustats)
    /\ userBadges' = RolledBack(userBadges, req[r].undo.userBadges)
    /\ problems' = RolledBack(problems, req[r].undo.problems)
    /\ subs' = RolledBack(subs, [subs EXCEPT ![r] = BlankRow])
    /\ exists' = RolledBack(exists, exists \ {r})
    /\ req' = [req EXCEPT ![r] = [BlankReq EXCEPT !.pc = "done", !.response = 500]]
    /\ UNCHANGED <<testCases, committed, clock, calls, seen, badgeChecks>>

\* BadgeService.award_badge(user, badge_name), called for a user whose
\* UserStats row check_and_award_badges has loaded
award_badge(u, b) ==
    /\ ustats[u].exists
    /\ userBadges' = BadgesAfter(u, {b})
    /\ ustats' = [ustats EXCEPT ![u] = PointsAfter(@, u, {b})]
    /\ UNCHANGED <<problems, testCases, subs, exists, committed, ups, clock,
                   req, calls, seen, badgeChecks>>

\* update_user_problem_stats raises before it has written anything.  The
\* view's 'except Exception' answers 500 either way; an exception that
\* passes through a Model.save() (a database error) has marked the
\* transaction for rollback, any other leaves it to commit.
StatsRaise(r, in_save) ==
    /\ req[r].pc = "saved"
    /\ req' = [req EXCEPT ![r].pc = IF in_save THEN "marked" ELSE "stats_raised"]
    /\ UNCHANGED <<userBadges, badgeChecks>>
    /\ UNCHANGED <<problems, testCases, subs, exists, committed, ups, ustats,
                   clock, calls, seen>>

\* transaction.atomic leaves the view with the transaction marked for
\* rollback: everything the request wrote is undone
Rollback(r) ==
    /\ req[r].pc = "marked"
    /\ subs' = [subs EXCEPT ![r] = BlankRow]
    /\ exists' = exists \ {r}
    /\ req' = [req EXCEPT ![r] = [BlankReq EXCEPT !.pc = "done", !.response = 500]]
    /\ UNCHANGED <<userBadges, badgeChecks>>
    /\ UNCHANGED <<problems, testCases, committed, ups, ustats, clock, calls,
                   seen>>

\* the view returns its JsonResponse and transaction.atomic commits: 200 with
\* the result, or 500 from 'except Exception' when evaluation raised
Respond(r) ==
    /\ req[r].pc \in {"counted", "recounted", "raised", "stats_raised"}
    /\ req' = [req EXCEPT ![r] =
                 [BlankReq EXCEPT !.pc = "done",
                                  !.response = IF req[r].pc \in {"raised", "stats_raised"}
                                               THEN 500 ELSE 200]]
    /\ committed' = committed \cup ({r} \cap exists)
    /\ UNCHANGED <<userBadges, badgeChecks>>
    /\ UNCHANGED <<problems, testCases, subs, exists, ups, ustats, clock, calls,
                   seen>>

\* the worker process dies while the submission is being evaluated: the open
\* transaction never commits and its INSERT is rolled back
Crash(r) ==
    /\ req[r].pc \in {"created", "checked", "eval", "evaluated", "raised", "saved"}
    /\ subs' = [subs EXCEPT ![r] = BlankRow]
    /\ exists' = exists \ {r}
    /\ req' = [req EXCEPT ![r] = [BlankReq EXCEPT !.pc = "crashed"]]
    /\ UNCHANGED <<userBadges, badgeChecks>>
    /\ UNCHANGED <<problems, testCases, committed, ups, ustats, clock, calls,
                   seen>>

\* ------------------------------------------------ run_code_against_samples
\* the replies of a sample run: those of CommonReplies and a failed request
SampleReplies ==
    CommonReplies \cup {rp \in ProviderReplies : rp.kind = "request_exception"}

\* problem.test_cases.filter(is_sample=True).order_by('order', 'created_at')
SampleCases(slug) == SelectSeq(testCases[slug], LAMBDA tc : tc.is_sample)

\* run_code_against_samples up to the loop of run_against_test_cases: 404
\* for a problem that is not published, 400 for empty code or a problem
\* without sample cases
BeginSamples(r, slug, language, has_code) ==
    /\ req[r].pc = "idle"
    /\ IF r = 1 THEN TRUE ELSE req[r - 1].pc # "idle"
    /\ InFlight = {}
    /\ IF ~Evaluable(slug)
       THEN req' = [req EXCEPT ![r] = [BlankReq EXCEPT !.pc = "done", !.response = 404]]
       ELSE IF ~has_code \/ SampleCases(slug) = <<>>
       THEN req' = [req EXCEPT ![r] = [BlankReq EXCEPT !.pc = "done", !.response = 400]]
       ELSE req' = [req EXCEPT ![r] =
                       [BlankReq EXCEPT !.pc = "sampling", !.slug = slug,
                                        !.language = language,
                                        !.test_cases = SampleCases(slug),
                                        !.i = 1]]
    /\ UNCHANGED <<userBadges, badgeChecks>>
    /\ UNCHANGED <<problems, testCases, subs, exists, committed, ups, ustats,
                   clock, calls, seen>>

StopSampleRun_on_error(er) == er.error # <<>>

\* the only 'break' of run_against_test_cases: the compilation-error branch
StopSampleRun(er) == er.is_compilation_error

\* the entry run_against_test_cases appends for case number i
SampleResult(i, tc, er) ==
    IF er.is_compilation_error
    THEN [test_case_id |-> i, passed |-> FALSE, error |-> "Compilation Error",
          error_message |-> er.output,
          input |-> Masked(tc, tc.input_data),
          expected_output |-> Masked(tc, tc.expected_output),
          actual_output |-> <<>>, execution_time |-> 0]
    ELSE IF er.error # <<>>
    THEN [test_case_id |-> i, passed |-> FALSE, error |-> "Runtime Error",
          error_message |-> er.error,
          input |-> Masked(tc, tc.input_data),
          expected_output |-> Masked(tc, tc.expected_output),
          actual_output |-> er.output, execution_time |-> er.cpuTime]
    ELSE [test_case_id |-> i,
          passed |-> Strip(er.output) = Strip(tc.expected_output),
          input |-> Masked(tc, tc.input_data),
          expected_output |-> Masked(tc, Strip(tc.expected_output)),
          actual_output |-> Masked(tc, Strip(er.output)),
          execution_time |-> er.cpuTime, memory |-> er.memory]

\* one iteration of the loop of run_against_test_cases
RunSampleCase(r, reply) ==
    /\ req[r].pc = "sampling"
    /\ LET q  == req[r]
           tc == q.test_cases[q.i]
           er == run_code(q.language, reply)
           stop == StopSampleRun(er) \/ q.i = Len(q.test_cases)
       IN
       /\ calls' = [calls EXCEPT ![r] = @ + 1]
       /\ seen' = [seen EXCEPT ![r] = Append(@, Signal(er))]
       /\ req' = [req EXCEPT
                    ![r].pc = IF stop THEN "sampled" ELSE "sampling",
                    ![r].i = IF stop THEN q.i ELSE q.i + 1,
                    ![r].individual_results = Append(@, SampleResult(q.i, tc, er))]
    /\ UNCHANGED <<userBadges, badgeChecks>>
    /\ UNCHANGED <<problems, testCases, subs, exists, committed, ups, ustats,
                   clock>>

\* the view sums float(execution_time) over the entries and answers 200 with
\* the results; a value float() rejects is answered 500 by 'except
\* Exception'.  A metric of 0 stands for 0 as well as for a cpuTime the
\* provider left out (None), which float() rejects too.
RespondSamples(r, response) ==
    /\ req[r].pc = "sampled"
    /\ LET res == req[r].individual_results
           times == {res[j].execution_time : j \in 1..Len(res)}
       IN  /\ Unparseable \in times => response = 500
           /\ 0 \notin times /\ Unparseable \notin times => response = 200
    /\ req' = [req EXCEPT ![r] = [BlankReq EXCEPT !.pc = "done", !.response = response]]
    /\ UNCHANGED <<userBadges, badgeChecks>>
    /\ UNCHANGED <<problems, testCases, subs, exists, committed, ups, ustats,
                   clock, calls, seen>>

\* ------------------------------------------------------------- admin site
\* admin actions on problems: queryset.update(status=...)
make_published(p) ==
    /\ problems[p].status # "PUBLISHED"
    /\ problems' = [problems EXCEPT ![p].status = "PUBLISHED"]
    /\ UNCHANGED <<userBadges, badgeChecks>>
    /\ UNCHANGED <<testCases, subs, exists, committed, ups, ustats, clock, req,
                   calls, seen>>

make_draft(p) ==
    /\ problems[p].status # "DRAFT"
    /\ problems' = [problems EXCEPT ![p].status = "DRAFT"]
    /\ UNCHANGED <<userBadges, badgeChecks>>
    /\ UNCHANGED <<testCases, subs, exists, committed, ups, ustats, clock, req,
                   calls, seen>>

\* admin action: archive the selected problems
archive_problems(p) ==
    /\ problems[p].status # "ARCHIVED"
    /\ problems' = [problems EXCEPT ![p].status = "ARCHIVED"]
    /\ UNCHANGED <<userBadges, badgeChecks>>
    /\ UNCHANGED <<testCases, subs, exists, committed, ups, ustats, clock, req,
                   calls, seen>>

has_change_permission_granted == TRUE

\* PracticeSubmissionAdmin.has_change_permission
has_change_permission == FALSE

\* a change form for a submission is posted to the admin site
AdminChangeSubmission(s) ==
    /\ s \in committed
    /\ IF has_change_permission
       THEN \E st \in SUBMISSION_STATUS_CHOICES : subs' = [subs EXCEPT ![s].status = st]
       ELSE UNCHANGED subs  \* PermissionDenied
    /\ UNCHANGED <<userBadges, badgeChecks>>
    /\ UNCHANGED <<problems, testCases, exists, committed, ups, ustats, clock,
                   req, calls, seen>>

\* the admin deletes a submission; best_submission is SET_NULL
AdminDeleteSubmission(s) ==
    /\ s \in committed
    /\ exists' = exists \ {s}
    /\ committed' = committed \ {s}
    /\ subs' = [subs EXCEPT ![s] = BlankRow]
    /\ ups' = [k \in DOMAIN ups |->
                 IF ups[k].best_submission = s
                 THEN [ups[k] EXCEPT !.best_submission = 0] ELSE ups[k]]
    /\ UNCHANGED <<userBadges, badgeChecks>>
    /\ UNCHANGED <<problems, testCases, ustats, clock, req, calls, seen>>

\* ----------------------------------------------------------- specification
\* Steps of request r, the provider answering from the set replies
RequestStep(r, replies) ==
    \/ \E u \in Users, slug \in Slugs, l \in RequestLanguages, c \in BOOLEAN :
          Submit(r, u, slug, l, c)
    \/ StartEvaluation(r)
    \/ \E reply \in replies : RunCase(r, reply)
    \/ Finalize(r)
    \/ UpdateStats(r)
    \/ Respond(r)
    \/ Crash(r)

AdminStep ==
    \/ \E p \in ProblemIds : make_published(p)
    \/ \E p \in ProblemIds : make_draft(p)
    \/ \E p \in ProblemIds : archive_problems(p)
    \/ \E s \in Requests : AdminChangeSubmission(s)
    \/ \E s \in Requests : AdminDeleteSubmission(s)

\* Up to MaxReq submissions, served one at a time
Next ==
    \/ \E r \in Requests : RequestStep(r, CommonReplies)
    \/ AdminStep

Spec == Init /\ [][Next]_vars

\* One submission, the provider answering with any reply
NextEval ==
    \/ RequestStep(1, ProviderReplies)
    \/ AdminStep

SpecEval == InitEval /\ [][NextEval]_vars

\* Steps of request r when the statistics are looked at: clean runs with any
\* metrics, and a caller that applies the statistics update a second time
StatsStep(r) ==
    \/ \E u \in Users, slug \in Slugs, l \in RequestLanguages, c \in BOOLEAN :
          Submit(r, u, slug, l, c)
    \/ StartEvaluation(r)
    \/ \E reply \in StatsReplies : RunCase(r, reply)
    \/ Finalize(r)
    \/ UpdateStats(r)
    \/ Reapply(r)
    \/ Respond(r)

NextStats == \E r \in Requests : StatsStep(r)

SpecStats == Init /\ [][NextStats]_vars

\* Submissions served one at a time, the statistics update failing at will
NextFault ==
    \/ \E r \in Requests : RequestStep(r, CommonReplies)
    \/ \E r \in Requests, in_save \in BOOLEAN : StatsRaise(r, in_save)
    \/ \E r \in Requests : Rollback(r)

SpecFault == Init /\ [][NextFault]_vars

\* the response of a request whose commit has the database to itself
Commit(r) == ~CommitBlocked(r) /\ Respond(r)

\* an admin action on a problem, which needs the database unlocked
AdminStatusStep ==
    /\ Readers = {} /\ Writers = {}
    /\ \/ \E p \in ProblemIds : make_published(p)
       \/ \E p \in ProblemIds : make_draft(p)

\* Steps of request r when requests overlap
OverlapStep(r) ==
    \/ \E u \in Users, slug \in Slugs, l \in RequestLanguages, c \in BOOLEAN :
          Begin(r, u, slug, l, c)
    \/ Create(r)
    \/ StartEvaluation(r)
    \/ \E reply \in CommonReplies : RunCase(r, reply)
    \/ Finalize(r)
    \/ UpdateStats(r)
    \/ Commit(r)
    \/ Crash(r)

\* Up to MaxReq submissions that may overlap
NextOverlap ==
    \/ \E r \in Requests : OverlapStep(r)
    \/ AdminStatusStep

SpecOverlap == Init /\ [][NextOverlap]_vars

\* the replies that differ in the metrics they carry: a clean run with the
\* expected output, an API error and a failed request
MetricReplies ==
    {rp \in ProviderReplies :
        \/ rp.kind = "json" /\ rp.error = <<>> /\ rp.output = <<"a", "\n">>
        \/ rp.kind = "json" /\ rp.error # <<>> /\ rp.output = <<"b">>
        \/ rp.kind = "request_exception"}

\* One submission, the provider reporting any metrics
NextMetrics == RequestStep(1, MetricReplies)

SpecMetrics == Init /\ [][NextMetrics]_vars

\* ------------------------------------------------------- output comparison
\* texts of up to MaxLen characters over two letters and two kinds of whitespace
Alphabet == {"a", "b", " ", "\n"}
Texts    == UNION {[1..n -> Alphabet] : n \in 0..MaxLen}

\* clean runs that print any of the texts
TextReplies ==
    [kind : {"json"}, error : {<<>>}, output : Texts, cpuTime : {0}, memory : {0}]

\* problems with one test case; TestCase.save() has stripped the expected
\* output it stored
TextCaseLists ==
    {<<[is_sample |-> b, input_data |-> InputData, expected_output |-> Strip(t)]>> :
        b \in BOOLEAN, t \in {x \in Texts : Strip(x) # <<>>}}

InitText == InitWith(TextCaseLists)

\* One submission whose program prints any text
NextText == RequestStep(1, TextReplies)

SpecText == InitText /\ [][NextText]_vars

\* problems whose cases are samples or hidden in any order
InitSample == InitWith(TestCaseListsUpTo(MaxCases))

\* Sample runs, served one at a time
NextSample ==
    \E r \in Requests :
        \/ \E slug \in Slugs, l \in RequestLanguages, c \in BOOLEAN :
              BeginSamples(r, slug, l, c)
        \/ \E reply \in SampleReplies : RunSampleCase(r, reply)
        \/ \E response \in {200, 500} : RespondSamples(r, response)

SpecSample == InitSample /\ [][NextSample]_vars

\* Steps of a request whose two test case queries are separate steps
EditStep(r) ==
    \/ \E u \in Users, slug \in Slugs, l \in RequestLanguages, c \in BOOLEAN :
          Begin(r, u, slug, l, c)
    \/ Create(r)
    \/ CheckTestCases(r)
    \/ FetchTestCases(r)
    \/ \E reply \in CommonReplies : RunCase(r, reply)
    \/ Finalize(r)
    \/ UpdateStats(r)
    \/ Commit(r)
    \/ Crash(r)

\* Submissions that may overlap and an author who saves test cases at any
\* time
NextEdit ==
    \/ \E r \in Requests : EditStep(r)
    \/ \E p \in ProblemIds, list \in TestCaseLists : SaveTestCases(p, list)

SpecEdit == Init /\ [][NextEdit]_vars

\* Steps of request r when the statistics update is followed write by write
\* and a save may fail
PartialStep(r) ==
    \/ \E u \in Users, slug \in Slugs, l \in RequestLanguages, c \in BOOLEAN :
          Submit(r, u, slug, l, c)
    \/ StartEvaluation(r)
    \/ \E reply \in CommonReplies : RunCase(r, reply)
    \/ Finalize(r)
    \/ StatsUser(r)
    \/ StatsUps(r)
    \/ StatsProblem(r)
    \/ \E in_save \in BOOLEAN : StatsRaise(r, in_save)
    \/ Rollback(r)
    \/ SaveFails(r)
    \/ RollbackStats(r)
    \/ Respond(r)

NextPartial == \E r \in Requests : PartialStep(r)

SpecPartial == Init /\ [][NextPartial]_vars

\* the badges whose condition holds again at every later first solve
\* ('>=' in check_and_award_badges), so that award_badge is called for a badge
\* the user may hold
RepeatableBadges == {"Easy Mode Champion", "Medium Mode Master", "Hard Mode Hero"}

\* clean runs that print the expected output or another one
VerdictReplies ==
    {rp \in ProviderReplies :
        /\ rp.kind = "json" /\ rp.error = <<>>
        /\ rp.cpuTime = MaxMetric /\ rp.memory = MaxMetric}

\* Steps of request r when only the verdict matters
VerdictStep(r) ==
    \/ \E u \in Users, slug \in Slugs, l \in RequestLanguages, c \in BOOLEAN :
          Submit(r, u, slug, l, c)
    \/ StartEvaluation(r)
    \/ \E reply \in VerdictReplies : RunCase(r, reply)
    \/ Finalize(r)
    \/ UpdateStats(r)
    \/ Respond(r)

\* Submissions served one at a time, and award_badge called at will
NextBadge ==
    \/ \E r \in Requests : VerdictStep(r)
    \/ \E u \in Users, b \in RepeatableBadges : award_badge(u, b)

SpecBadge == Init /\ [][NextBadge]_vars

\* two problems of different difficulty, each with test cases
AllProblemIds == ProblemIds \cup {"n-queens"}

InitSolve == InitOn(AllProblemIds, TestCaseLists \ {<<>>})

\* Steps of request r when a user submits to several problems
SolveStep(r) ==
    \/ \E u \in Users, slug \in AllProblemIds : Begin(r, u, slug, "python3", TRUE)
    \/ Create(r)
    \/ StartEvaluation(r)
    \/ \E reply \in VerdictReplies : RunCase(r, reply)
    \/ Finalize(r)
    \/ UpdateStats(r)
    \/ Commit(r)

\* Up to MaxReq submissions to two problems that may overlap
NextSolve == \E r \in Requests : SolveStep(r)

SpecSolve == InitSolve /\ [][NextSolve]_vars

TypeOK ==
    /\ exists \subseteq Requests
    /\ committed \subseteq exists
    /\ \A r \in Requests : req[r].pc \in
          {"idle", "loaded", "created", "checked", "eval", "evaluated", "saved", "counted",
           "recounted", "raised", "stats_raised", "marked", "sampling", "sampled",
           "stats_user", "stats_ups", "stats_marked",
           "done", "crashed"}

\* ------------------------------------------------------------------ claims
\* the statuses that end the life cycle of a submission
TerminalStatuses ==
    {"ACCEPTED", "WRONG_ANSWER", "TIME_LIMIT_EXCEEDED", "RUNTIME_ERROR",
     "COMPILATION_ERROR", "INTERNAL_ERROR"}

\* a submission row that is present and carries a terminal status
Finalized(s) == s \in exists /\ subs[s].status \in TerminalStatuses

\* C1: every persisted submission record ends with a terminal status; once
\* the request that created it has returned, the record is not left PENDING
\* or RUNNING (nothing in the program touches it afterwards).
C1_PersistedRecordIsTerminal ==
    \A s \in committed : subs[s].status \in TerminalStatuses

\* C2: a submission is PENDING at creation, RUNNING from before the first
\* run_code call of its evaluation, and then changes once to a terminal
\* status; its status makes no other step.
C2_StatusStep(s) ==
    \/ subs'[s].status = subs[s].status
    \/ s \notin exists /\ s \in exists' /\ subs'[s].status = "PENDING"
    \/ subs[s].status = "PENDING" /\ subs'[s].status = "RUNNING"
    \/ subs[s].status = "RUNNING" /\ subs'[s].status \in TerminalStatuses
    \/ s \in exists /\ s \notin exists'

C2_Lifecycle ==
    /\ [][\A s \in Requests : C2_StatusStep(s)]_vars
    /\ [](\A s \in Requests : s \in exists /\ calls[s] > 0 => subs[s].status # "PENDING")

\* C3: a submission row that carries a terminal status keeps every field for
\* as long as it is in the table, whatever happens next: another submission
\* of the same user for the same problem, a statistics update, an admin
\* change request.  A later submission is a row of its own.
C3_TerminalRowImmutable ==
    [][\A s \in Requests : Finalized(s) /\ s \in exists' => subs'[s] = subs[s]]_vars

\* two finalized submissions of one user for one problem, both counted
C3_Witness ==
    \E s, t \in committed :
        /\ s < t
        /\ Finalized(s) /\ Finalized(t)
        /\ subs[s].user = subs[t].user /\ subs[s].problem = subs[t].problem
        /\ subs[s].status # subs[t].status
        /\ ups[<<subs[s].user, subs[s].problem>>].total_attempts = 2

\* C4: no submission row is ever created for a language that is not in
\* LANGUAGE_MAPPING, and run_code is never invoked for one.
C4_UnsupportedLanguageRejected ==
    \A s \in Requests :
        /\ s \in exists => subs[s].language \in LANGUAGE_MAPPING
        /\ req[s].pc \in {"created", "eval", "evaluated", "saved", "counted"}
              => req[s].language \in LANGUAGE_MAPPING

\* C5: a submit for a slug that has no PUBLISHED problem is answered with an
\* error and changes nothing: no submission row, no run_code call, no
\* counter of the problem, of UserProblemStats or of UserStats.
C5_UnavailableProblemRejected ==
    [][\A r \in Requests, u \in Users, slug \in Slugs, l \in RequestLanguages,
          c \in BOOLEAN :
          /\ Submit(r, u, slug, l, c)
          /\ (slug \notin ProblemIds \/ problems[slug].status # "PUBLISHED")
          =>
              /\ req'[r].pc = "done"
              /\ req'[r].response \in {400, 500}
              /\ UNCHANGED <<subs, exists, committed, calls, seen, problems,
                             ups, ustats>>]_vars

\* a request was refused for an unpublished problem that already has a
\* counted submission
C5_Witness ==
    \E r \in Requests, s \in committed :
        /\ req[r].pc = "done" /\ req[r].response = 500
        /\ r \notin exists /\ calls[r] = 0 /\ r > s
        /\ problems[subs[s].problem].status # "PUBLISHED"
        /\ problems[subs[s].problem].total_submissions > 0

\* the evaluation of submission s has returned its result
Completed(s) == req[s].pc = "evaluated" \/ Finalized(s)

\* the result list, status and counts of a completed evaluation: the
\* evaluator's until the submission is saved, the row's afterwards
ResultsOf(s) ==
    IF req[s].pc = "evaluated" THEN req[s].individual_results ELSE subs[s].results
StatusOf(s) ==
    IF req[s].pc = "evaluated" THEN req[s].overall_status ELSE subs[s].status
PassedOf(s) ==
    IF req[s].pc = "evaluated" THEN req[s].passed_count ELSE subs[s].passed_cases
TotalOf(s) ==
    IF req[s].pc = "evaluated" THEN req[s].total_count ELSE subs[s].total_cases

\* C6: once run_code signals a compilation error for a case, run_code is not
\* invoked again for that submission, and the result list the evaluation
\* returns ends with the compilation-error entry of that case.
C6_FailFastOnCompilation ==
    \A s \in Requests : \A j \in 1..Len(seen[s]) :
        seen[s][j] = "compile" =>
            /\ j = Len(seen[s]) /\ calls[s] = j
            /\ Completed(s) =>
                 /\ Len(ResultsOf(s)) = j
                 /\ ResultsOf(s)[j].status = "Compilation Error"
                 /\ ResultsOf(s)[j].case_number = j

\* a compilation error on the first of several cases: one run_code call
C6_Witness ==
    \E s \in Requests :
        /\ Finalized(s) /\ subs[s].total_cases > 1
        /\ seen[s] = <<"compile">> /\ calls[s] = 1
        /\ subs[s].status = "COMPILATION_ERROR"

\* C7: once run_code signals an error other than a compilation error (a
\* failed request, an exception, an unknown language) for a case, run_code
\* is not invoked again for that submission, and the result list ends with
\* the runtime-error entry of that case.
C7_FailFastOnError ==
    \A s \in Requests : \A j \in 1..Len(seen[s]) :
        seen[s][j] = "error" =>
            /\ j = Len(seen[s]) /\ calls[s] = j
            /\ Completed(s) =>
                 /\ Len(ResultsOf(s)) = j
                 /\ ResultsOf(s)[j].status = "Runtime Error"
                 /\ ResultsOf(s)[j].case_number = j

\* the provider is unreachable on the first of several cases
C7_Witness ==
    \E s \in Requests :
        /\ Finalized(s) /\ subs[s].total_cases > 1
        /\ seen[s] = <<"error">> /\ calls[s] = 1
        /\ subs[s].results[1].error_message = MsgConnect
        /\ subs[s].status = "RUNTIME_ERROR"

\* C8: an evaluation in which run_code signals neither a compilation error
\* nor an error invokes run_code once per test case of the problem and
\* returns one entry per test case, in order, however many cases fail.
C8_ContinueOnWrongAnswer ==
    \A s \in Requests :
        Completed(s) /\ (\A j \in 1..Len(seen[s]) : seen[s][j] = "clean") =>
            /\ calls[s] = Len(testCases[subs[s].problem])
            /\ Len(ResultsOf(s)) = calls[s]
            /\ \A j \in 1..Len(ResultsOf(s)) :
                  /\ ResultsOf(s)[j].case_number = j
                  /\ ResultsOf(s)[j].status \in {"PASSED", "FAILED"}

\* case 2 of 3 fails, cases 1 and 3 pass
C8_Witness ==
    \E s \in Requests :
        /\ Finalized(s) /\ calls[s] = 3 /\ Len(subs[s].results) = 3
        /\ subs[s].results[1].status = "PASSED"
        /\ subs[s].results[2].status = "FAILED"
        /\ subs[s].results[3].status = "PASSED"

\* the reduction of a result list in fixed precedence
Aggregate(results) ==
    LET Has(st) == \E j \in 1..Len(results) : results[j].status = st IN
    IF Has("Compilation Error") THEN "COMPILATION_ERROR"
    ELSE IF Has("Runtime Error") THEN "RUNTIME_ERROR"
    ELSE IF Has("Time Limit Exceeded") THEN "TIME_LIMIT_EXCEEDED"
    ELSE IF Has("FAILED") THEN "WRONG_ANSWER"
    ELSE IF Len(results) >= 1 /\ \A j \in 1..Len(results) : results[j].status = "PASSED"
         THEN "ACCEPTED"
    ELSE "INTERNAL_ERROR"

\* C9: the status an evaluation returns is the fixed-precedence reduction of
\* its result list, and it is ACCEPTED only with passed_cases = total_cases
\* and at least one case.
C9_StatusIsReduction ==
    \A s \in Requests :
        Completed(s) =>
            /\ StatusOf(s) = Aggregate(ResultsOf(s))
            /\ StatusOf(s) = "ACCEPTED" =>
                  PassedOf(s) = TotalOf(s) /\ TotalOf(s) >= 1

\* a failed case followed by a passed one is reported WRONG_ANSWER
C9_Witness ==
    \E s \in Requests :
        /\ Finalized(s) /\ Len(subs[s].results) = 2
        /\ subs[s].results[1].status = "FAILED"
        /\ subs[s].results[2].status = "PASSED"
        /\ subs[s].status = "WRONG_ANSWER"

\* C10: total_cases is the number of test cases of the problem, whether or
\* not the evaluation stopped early, and passed_cases is the number of PASSED
\* entries, so passed_cases <= Len(results) <= total_cases.
C10_TrueDenominator ==
    \A s \in Requests :
        Completed(s) =>
            /\ TotalOf(s) = Len(testCases[subs[s].problem])
            /\ PassedOf(s) =
                 Cardinality({j \in 1..Len(ResultsOf(s)) : ResultsOf(s)[j].status = "PASSED"})
            /\ PassedOf(s) <= Len(ResultsOf(s))
            /\ Len(ResultsOf(s)) <= TotalOf(s)

\* an evaluation that stopped on an error after one passed case
C10_Witness ==
    \E s \in Requests :
        /\ Finalized(s)
        /\ Len(subs[s].results) < subs[s].total_cases
        /\ subs[s].passed_cases = 1

\* C11: the evaluation of a submission for a problem without test cases
\* makes no run_code call and returns INTERNAL_ERROR with total_cases = 0,
\* passed_cases = 0 and an empty result list; it is never ACCEPTED.
C11_NoTestCases ==
    \A s \in Requests :
        s \in exists /\ testCases[subs[s].problem] = <<>> =>
            /\ calls[s] = 0
            /\ subs[s].status # "ACCEPTED"
            /\ Completed(s) =>
                 /\ StatusOf(s) = "INTERNAL_ERROR"
                 /\ TotalOf(s) = 0 /\ PassedOf(s) = 0
                 /\ ResultsOf(s) = <<>>

\* a committed submission for a problem without test cases
C11_Witness ==
    \E s \in committed :
        /\ testCases[subs[s].problem] = <<>>
        /\ subs[s].status = "INTERNAL_ERROR" /\ subs[s].total_cases = 0
        /\ calls[s] = 0

\* the entry of an evaluation that ended on a failed provider request
ProviderUnavailable(s) ==
    /\ Len(ResultsOf(s)) > 0
    /\ LET last == ResultsOf(s)[Len(ResultsOf(s))] IN
       last.status = "Runtime Error" /\ last.error_message = MsgConnect

\* C12: an evaluation whose run_code call failed on the network (request
\* exception, timeout) returns INTERNAL_ERROR, not a verdict on the
\* submitted program, and the failed call is not repeated.
C12_ProviderUnavailableIsInternalError ==
    \A s \in Requests :
        Completed(s) /\ ProviderUnavailable(s) =>
            /\ StatusOf(s) = "INTERNAL_ERROR"
            /\ calls[s] = Len(ResultsOf(s))

\* C13: in every result list exposed for a submission, the entry of a
\* non-sample test case carries the placeholder in input, expected_output
\* and actual_output, whatever the outcome of the case.
C13_HiddenCasesMasked ==
    \A s \in Requests :
        Completed(s) =>
            \A j \in 1..Len(ResultsOf(s)) :
                LET e  == ResultsOf(s)[j]
                    tc == testCases[subs[s].problem][e.case_number]
                IN  ~tc.is_sample =>
                      /\ "input" \in DOMAIN e
                      /\ \A f \in DOMAIN e \cap {"input", "expected_output",
                                               "actual_output"} :
                            e[f] = Hidden

\* hidden cases that passed, failed and ended on a runtime error
C13_Witness ==
    \E s \in Requests :
        /\ Finalized(s) /\ Len(subs[s].results) = 3
        /\ \A j \in 1..3 : ~testCases[subs[s].problem][j].is_sample
        /\ subs[s].results[1].status = "PASSED"
        /\ subs[s].results[2].status = "FAILED"
        /\ subs[s].results[3].status = "Runtime Error"

\* the submissions whose statistics update has run
Counted(p) ==
    {s \in exists :
        /\ subs[s].problem = p
        /\ req[s].pc = "counted" \/ (s \in committed /\ Finalized(s))}

C15_StatsIncrements ==
    [][\A r \in Requests :
          UpdateStats(r) =>
              LET p == req[r].slug
                  k == <<req[r].user, req[r].slug>>
              IN  /\ subs[r].status \in TerminalStatuses
                  /\ problems'[p].total_submissions = problems[p].total_submissions + 1
                  /\ ups'[k].total_attempts = ups[k].total_attempts + 1
                  /\ problems'[p].accepted_submissions =
                       problems[p].accepted_submissions
                         + (IF subs[r].status = "ACCEPTED" THEN 1 ELSE 0)]_vars

\* a rejected submission was counted after an accepted one
C15_Witness ==
    \E s, t \in Requests :
        /\ s < t /\ Finalized(s) /\ Finalized(t)
        /\ subs[s].status = "ACCEPTED" /\ subs[t].status = "WRONG_ANSWER"
        /\ req[t].pc = "counted"
        /\ problems[subs[t].problem].total_submissions = 2
        /\ problems[subs[t].problem].accepted_submissions = 1
        /\ ups[<<subs[t].user, subs[t].problem>>].total_attempts = 2

\* C16: in every reachable state, overlapping submissions included, each
\* problem has accepted_submissions <= total_submissions.
C16_AcceptedAtMostTotal ==
    \A p \in ProblemIds :
        problems[p].accepted_submissions <= problems[p].total_submissions

\* an accepted and a rejected submission have been counted
C16_Witness ==
    \E p \in ProblemIds :
        problems[p].accepted_submissions = 1 /\ problems[p].total_submissions = 2

\* C17: for every user and problem, is_solved never goes back to false and
\* first_solved_at, once assigned, is never assigned again.
C17_SolvedWriteOnce ==
    [][\A k \in Users \X ProblemIds :
          ups[k].is_solved =>
              /\ ups'[k].is_solved
              /\ ups'[k].first_solved_at = ups[k].first_solved_at]_vars

\* a second ACCEPTED submission of a user for a solved problem was counted
C17_Witness ==
    \E s, t \in Requests :
        /\ s < t /\ Finalized(s) /\ Finalized(t)
        /\ subs[s].status = "ACCEPTED" /\ subs[t].status = "ACCEPTED"
        /\ subs[s].user = subs[t].user /\ subs[s].problem = subs[t].problem
        /\ req[t].pc \in {"counted", "done"}
        /\ LET k == <<subs[s].user, subs[s].problem>> IN
           /\ ups[k].is_solved /\ ups[k].total_attempts = 2
           /\ ups[k].first_solved_at < clock - 1

\* the submissions the statistics update has been applied to, once or twice
Applied(p) ==
    {s \in exists :
        /\ subs[s].problem = p
        /\ req[s].pc \in {"counted", "recounted"} \/ (s \in committed /\ Finalized(s))}

\* C18: applying the statistics update a second time to the same ACCEPTED
\* submission counts it once in accepted_submissions and leaves a stored
\* best_runtime that is at least as good in place.
C18_ReapplyIdempotent ==
    /\ [](\A p \in ProblemIds :
            problems[p].accepted_submissions <=
                Cardinality({s \in Applied(p) : subs[s].status = "ACCEPTED"}))
    /\ [][\A r \in Requests :
            Reapply(r) /\ subs[r].status = "ACCEPTED" =>
                LET k == <<req[r].user, req[r].slug>> IN
                ups'[k].best_runtime = ups[k].best_runtime]_vars

\* C19: best_runtime and best_memory of a user for a problem change only
\* when an ACCEPTED submission with a strictly lower value (or the first
\* value) is counted; a tie keeps the earlier best_submission and a
\* submission that is not ACCEPTED changes nothing.
C19_BestOnlyImproves ==
    [][\A k \in Users \X ProblemIds :
          LET Better(new, old) == new # 0 /\ (old = 0 \/ new < old)
              By(r, field) ==
                  /\ req[r].pc = "saved" /\ <<req[r].user, req[r].slug>> = k
                  /\ subs[r].status = "ACCEPTED"
                  /\ subs[r][field] # 0
          IN
          /\ ups'[k].best_runtime # ups[k].best_runtime =>
                \E r \in Requests :
                    /\ By(r, "execution_time")
                    /\ ups'[k].best_runtime = subs[r].execution_time
                    /\ Better(ups'[k].best_runtime, ups[k].best_runtime)
                    /\ ups'[k].best_submission = r
          /\ ups'[k].best_memory # ups[k].best_memory =>
                \E r \in Requests :
                    /\ By(r, "memory_used")
                    /\ ups'[k].best_memory = subs[r].memory_used
                    /\ Better(ups'[k].best_memory, ups[k].best_memory)
          /\ ups'[k].best_submission # ups[k].best_submission =>
                ups'[k].best_runtime # ups[k].best_runtime]_vars

\* a faster ACCEPTED submission has replaced the record of a slower one,
\* whose lower memory value is kept
C19_Witness ==
    \E s, t \in Requests :
        /\ s < t /\ Finalized(s) /\ Finalized(t)
        /\ subs[s].status = "ACCEPTED" /\ subs[t].status = "ACCEPTED"
        /\ subs[t].execution_time < subs[s].execution_time
        /\ subs[s].memory_used < subs[t].memory_used
        /\ req[t].pc = "counted"
        /\ LET k == <<subs[t].user, subs[t].problem>> IN
           /\ ups[k].best_runtime = subs[t].execution_time
           /\ ups[k].best_submission = t
           /\ ups[k].best_memory = subs[s].memory_used

\* C20: when the statistics update of a finalized submission fails, the
\* submission row keeps its terminal status, results and counts and stays
\* in the table: the failure neither changes nor removes it.
C20_StatsFailureKeepsRecord ==
    [][\A r \in Requests :
          /\ \A in_save \in BOOLEAN :
                StatsRaise(r, in_save) => r \in exists' /\ subs'[r] = subs[r]
          /\ req[r].pc \in {"stats_raised", "marked"} =>
                /\ Finalized(r)
                /\ r \in exists' /\ subs'[r] = subs[r]]_vars

\* C24: the response to a submit carries the id of a submission that is
\* still PENDING and is returned before any run_code call is made for it:
\* the request does not wait for the execution provider.
C24_RespondsBeforeEvaluation ==
    [][\A r \in Requests :
          req[r].response = 0 /\ req'[r].response = 200 =>
              /\ r \in exists
              /\ subs[r].status = "PENDING"
              /\ calls[r] = 0]_vars

\* C27: execution_time of an evaluation is the largest cpuTime and
\* memory_used the largest memory reported over exactly the cases that were
\* executed, the case that ended the evaluation with an error included;
\* both are 0 when no executed case reported a value.
C27_MetricsAreMaxima ==
    /\ [](\A r \in Requests :
            calls[r] = 0 => req[r].max_cpu_time = 0 /\ req[r].max_memory = 0)
    /\ [][\A r \in Requests : \A reply \in MetricReplies :
            RunCase(r, reply) /\ req'[r].pc # "raised" =>
                LET er == run_code(req[r].language, reply)
                    Larger(a, b) == IF a > b THEN a ELSE b
                IN  /\ req'[r].max_cpu_time = Larger(er.cpuTime, req[r].max_cpu_time)
                    /\ req'[r].max_memory = Larger(er.memory, req[r].max_memory)]_vars
    /\ [][\A r \in Requests :
            Finalize(r) =>
                /\ subs'[r].execution_time = req[r].max_cpu_time
                /\ subs'[r].memory_used = req[r].max_memory]_vars

\* an evaluation that a compilation error ended in its second case, with
\* the largest cpuTime and a smaller memory value recorded
C27_Witness ==
    \E r \in Requests :
        /\ req[r].pc = "saved" /\ seen[r] = <<"clean", "compile">>
        /\ subs[r].execution_time = MaxMetric /\ subs[r].memory_used = 1

\* a text without its final newline, if it ends with one
TrimNewline(s) ==
    IF s # <<>> /\ s[Len(s)] = "\n" THEN SubSeq(s, 1, Len(s) - 1) ELSE s

\* C26: a case is PASSED exactly when stdout and expected_output are equal
\* byte for byte after a single trailing newline is removed from each: any
\* other difference in leading or trailing whitespace makes the case FAILED.
C26_OnlyTrailingNewlineIgnored ==
    [][\A r \in Requests : \A reply \in TextReplies :
          RunCase(r, reply) /\ req[r].language \in LANGUAGE_MAPPING =>
              LET tc == req[r].test_cases[req[r].i]
                  e  == req'[r].individual_results[Len(req'[r].individual_results)]
              IN  e.status = "PASSED" <=>
                      TrimNewline(reply.output) = TrimNewline(tc.expected_output)]_vars

\* C30: a sample run stops only on a compilation error.  After a runtime or
\* provider error on one sample case the remaining sample cases are still
\* executed; without a compilation error the result list has exactly one
\* entry per sample case, with passed = false for the cases that errored.
C30_SampleRunStopsOnlyOnCompileError ==
    \A r \in Requests :
        req[r].pc = "sampled" =>
            LET res == req[r].individual_results
                n   == Len(SampleCases(req[r].slug))
            IN  /\ calls[r] = Len(res)
                /\ Len(res) < n => seen[r][Len(res)] = "compile"
                /\ (\A j \in 1..Len(seen[r]) : seen[r][j] # "compile") =>
                      /\ Len(res) = n
                      /\ \A j \in 1..n :
                            /\ res[j].test_case_id = j
                            /\ seen[r][j] = "error" => ~res[j].passed

\* a sample run whose first case failed on the provider and whose second
\* case was executed and passed
C30_Witness ==
    \E r \in Requests :
        /\ req[r].pc = "sampled"
        /\ seen[r] = <<"error", "clean">>
        /\ ~req[r].individual_results[1].passed
        /\ req[r].individual_results[2].passed

\* C25: one evaluation works on one snapshot of the test cases of its
\* problem.  From the emptiness check to the end of the loop the stored
\* cases do not change, so the check, total_cases and the executed sequence
\* are taken from the same ordered list, whatever the author saves meanwhile.
C25_OneSnapshot ==
    /\ [][\A r \in Requests :
            req[r].pc \in {"checked", "eval"} =>
                testCases'[req[r].slug] = testCases[req[r].slug]]_vars
    /\ [](\A r \in Requests :
            /\ req[r].pc = "checked" => testCases[req[r].slug] # <<>>
            /\ req[r].pc = "eval" =>
                 /\ req[r].test_cases = testCases[req[r].slug]
                 /\ req[r].total_count = Len(req[r].test_cases)
                 /\ req[r].total_count >= 1
            /\ req[r].pc = "evaluated" /\ req[r].overall_status # NoTestCasesStatus =>
                 /\ req[r].total_count >= 1
                 /\ req[r].total_count = Len(req[r].test_cases))

\* the author has replaced the test cases the committed submission was
\* evaluated on by a longer list
C25_Witness ==
    \E s \in committed :
        /\ Finalized(s) /\ subs[s].status # "INTERNAL_ERROR"
        /\ subs[s].total_cases < Len(testCases[subs[s].problem])

\* the sum of the values the function f takes on the finite set S
RECURSIVE SumOver(_, _)
SumOver(S, f) ==
    IF S = {} THEN 0
    ELSE LET x == CHOOSE y \in S : TRUE IN f[x] + SumOver(S \ {x}, f)

\* C21: when the statistics update fails partway, the overall counter of the
\* user, the attempt counter of the user for the problem and the counter of
\* the problem are all incremented or none is: once the request is over,
\* they agree on the submissions that were counted.
C21_CountersAgree ==
    InFlight = {} =>
        /\ \A u \in Users :
              LET Attempts == [p \in DOMAIN problems |-> ups[<<u, p>>].total_attempts] IN
              ustats[u].total_submissions = SumOver(DOMAIN problems, Attempts)
        /\ \A p \in DOMAIN problems :
              LET Attempts == [u \in Users |-> ups[<<u, p>>].total_attempts] IN
              problems[p].total_submissions = SumOver(Users, Attempts)

\* the update of an ACCEPTED submission was rolled back after it had
\* written the UserStats row and awarded badges: none of it is left
C21_Witness ==
    /\ InFlight = {}
    /\ \E r \in Requests :
          /\ req[r].pc = "done" /\ req[r].response = 500
          /\ r \notin exists /\ r \in badgeChecks
          /\ \A u \in Users :
                ustats[u].total_submissions = 0 /\ ustats[u].total_points = 0

\* C22: the badge check is invoked for every ACCEPTED submission the
\* statistics update has processed, a submission for a problem the user had
\* already solved included.
C22_BadgeCheckOnEveryAccept ==
    \A r \in Requests :
        req[r].pc = "counted" /\ subs[r].status = "ACCEPTED" => r \in badgeChecks

\* C23: awarding a badge is idempotent.  A user has at most one UserBadge
\* row per badge, total_points is 10 for each badge held, and award_badge
\* for a badge the user holds creates no row and adds no points.
C23_AwardIdempotent ==
    /\ [](\A u \in Users :
            /\ \A b \in BadgeNames : userBadges[<<u, b>>] <= 1
            /\ LET Held == [b \in BadgeNames |-> userBadges[<<u, b>>]] IN
               ustats[u].total_points = 10 * SumOver(BadgeNames, Held))
    /\ [][\A u \in Users, b \in BadgeNames :
            award_badge(u, b) /\ userBadges[<<u, b>>] >= 1 =>
                userBadges' = userBadges /\ ustats' = ustats]_vars

\* a user holds the two badges of a first accepted submission and a badge
\* awarded directly, with the points of the three
C23_Witness ==
    \E u \in Users :
        /\ userBadges[<<u, "First Submission">>] = 1
        /\ userBadges[<<u, "First Accepted Solution">>] = 1
        /\ userBadges[<<u, "Easy Mode Champion">>] = 1
        /\ ustats[u].total_points = 30

\* the problems of a difficulty the user has solved
SolvedAt(u, difficulties) ==
    {p \in DOMAIN problems :
        ups[<<u, p>>].is_solved /\ problems[p].difficulty \in difficulties}

C29_UserTotals ==
    /\ [][\A r \in Requests :
            UpdateStats(r) =>
                ustats'[req[r].user].total_submissions =
                    ustats[req[r].user].total_submissions + 1]_vars
    /\ [](\A u \in Users :
            LET Attempts == [p \in DOMAIN problems |-> ups[<<u, p>>].total_attempts] IN
            /\ ustats[u].total_submissions = SumOver(DOMAIN problems, Attempts)
            /\ ustats[u].accepted_submissions <= ustats[u].total_submissions)

\* a second ACCEPTED submission for a solved problem was counted: the user
\* has two submissions, one of them counted as accepted
C29_Witness ==
    \E u \in Users, p \in DOMAIN problems :
        /\ ups[<<u, p>>].is_solved /\ ups[<<u, p>>].total_attempts = 2
        /\ \A s \in Requests : s \in committed /\ subs[s].status = "ACCEPTED"
        /\ ustats[u].total_submissions = 2
        /\ ustats[u].accepted_submissions = 1

====
